---- MODULE Spec2Model ----
(***************************************************************************)
(* A model of ivy, the file-based record store of src/db.go.               *)
(*                                                                         *)
(* A table is a directory of <id>.json files.  The model keeps, per table, *)
(* the files (id -> stored JSON text), the in-memory field index and tag   *)
(* index, and the table's RWMutex.  Identifiers are Go strings, modelled   *)
(* as sequences of one-character strings, so that strconv.Atoi,            *)
(* strconv.Itoa and the directory order of ioutil.ReadDir are computed     *)
(* rather than assumed.  A Go int is 64 bits wide: it is modelled by sign  *)
(* and decimal magnitude, with the range check of Atoi and the wrap-around *)
(* of lastFileId + 1.                                                      *)
(***************************************************************************)
EXTENDS Integers, Sequences, FiniteSets, TLC

(***************************************************************************)
(* Characters and strings                                                  *)
(***************************************************************************)

Digits == <<"0", "1", "2", "3", "4", "5", "6", "7", "8", "9">>

IsDigit(c) == \E i \in 1..Len(Digits) : Digits[i] = c

\* The value 0..9 of a digit character.
DigitVal(c) == (CHOOSE i \in 1..Len(Digits) : Digits[i] = c) - 1

DigitChar(n) == Digits[n + 1]

\* The byte order of the characters a file name of the model can hold
\* ('+' 43, '-' 45, '.' 46, '0'..'9' 48..57, letters above).
Code(c) ==
    IF c = "+" THEN 43
    ELSE IF c = "-" THEN 45
    ELSE IF c = "." THEN 46
    ELSE IF IsDigit(c) THEN 48 + DigitVal(c)
    ELSE 120

\* Byte-wise order of two strings, as Go's < on strings.
RECURSIVE StrLess(_, _)
StrLess(a, b) ==
    IF a = <<>> THEN b # <<>>
    ELSE IF b = <<>> THEN FALSE
    ELSE IF Code(Head(a)) # Code(Head(b)) THEN Code(Head(a)) < Code(Head(b))
    ELSE StrLess(Tail(a), Tail(b))

\* stringInSlice answers whether a string exists in a slice.
stringInSlice(s, list) == \E i \in 1..Len(list) : list[i] = s

(***************************************************************************)
(* Go's int (64 bits) as sign and magnitude; strconv.Atoi and strconv.Itoa *)
(***************************************************************************)

\* The decimal digits of 2^63 - 1 and of 2^63.
MaxIntMag ==
    <<"9", "2", "2", "3", "3", "7", "2", "0", "3", "6",
      "8", "5", "4", "7", "7", "5", "8", "0", "7">>

MinIntMag ==
    <<"9", "2", "2", "3", "3", "7", "2", "0", "3", "6",
      "8", "5", "4", "7", "7", "5", "8", "0", "8">>

RECURSIVE StripZeros(_)
StripZeros(ds) ==
    IF Len(ds) > 1 /\ Head(ds) = "0" THEN StripZeros(Tail(ds)) ELSE ds

\* Order of two magnitudes written without leading zeros.
MagLess(a, b) ==
    IF Len(a) # Len(b) THEN Len(a) < Len(b) ELSE StrLess(a, b)

\* m + 1 on decimal digits.
RECURSIVE MagInc(_)
MagInc(m) ==
    IF m = <<>> THEN <<"1">>
    ELSE IF m[Len(m)] # "9"
         THEN SubSeq(m, 1, Len(m) - 1) \o <<DigitChar(DigitVal(m[Len(m)]) + 1)>>
         ELSE MagInc(SubSeq(m, 1, Len(m) - 1)) \o <<"0">>

\* m - 1 on decimal digits, for m >= 1.
RECURSIVE MagDec(_)
MagDec(m) ==
    IF m[Len(m)] # "0"
    THEN StripZeros(SubSeq(m, 1, Len(m) - 1) \o <<DigitChar(DigitVal(m[Len(m)]) - 1)>>)
    ELSE StripZeros(MagDec(SubSeq(m, 1, Len(m) - 1)) \o <<"9">>)

Zero == [neg |-> FALSE, mag |-> <<"0">>]

MkInt(neg, mag) == IF mag = <<"0">> THEN Zero ELSE [neg |-> neg, mag |-> mag]

\* x < y on ints.
IntLess(x, y) ==
    IF x.neg # y.neg THEN x.neg
    ELSE IF x.neg THEN MagLess(y.mag, x.mag)
    ELSE MagLess(x.mag, y.mag)

\* x + 1 in 64-bit two's complement: the largest int wraps to the smallest.
IntInc(x) ==
    IF ~x.neg /\ x.mag = MaxIntMag THEN [neg |-> TRUE, mag |-> MinIntMag]
    ELSE IF x.neg THEN MkInt(TRUE, MagDec(x.mag))
    ELSE MkInt(FALSE, MagInc(x.mag))

\* strconv.Atoi: an optional sign, then one or more decimal digits, in the
\* range of int; anything else is an error.
Atoi(s) ==
    LET signed == s # <<>> /\ Head(s) \in {"+", "-"}
        body == IF signed THEN Tail(s) ELSE s
        neg == signed /\ Head(s) = "-"
        syntax == body # <<>> /\ \A i \in 1..Len(body) : IsDigit(body[i])
        mag == StripZeros(body)
        inRange == IF neg THEN ~MagLess(MinIntMag, mag) ELSE ~MagLess(MaxIntMag, mag)
    IN  IF syntax /\ inRange
        THEN [ok |-> TRUE, val |-> MkInt(neg, mag)]
        ELSE [ok |-> FALSE, val |-> Zero]

\* strconv.Itoa.
Itoa(x) == IF x.neg THEN <<"-">> \o x.mag ELSE x.mag

(***************************************************************************)
(* Records and their JSON text                                             *)
(***************************************************************************)

\* A decoded JSON value: a string, a number, or an array of strings.
Str(s) == [t |-> "str", v |-> <<s>>]
Num(s) == [t |-> "num", v |-> <<s>>]
List(l) == [t |-> "list", v |-> l]

\* The field names of the model's records, in the order json.Marshal emits
\* the keys of an object (sorted).
FieldOrder == <<"author", "tags">>

Fields == {FieldOrder[i] : i \in 1..Len(FieldOrder)}

\* A Go value json.Marshal refuses (a channel, a func): Create and Update
\* return its error before any file is touched.
BadRec == [unsupported |-> Str("chan")]

\* json.Marshal of a record: the object's members, keys in sorted order.
RECURSIVE MarshalFrom(_, _)
MarshalFrom(rec, i) ==
    IF i > Len(FieldOrder) THEN <<>>
    ELSE IF FieldOrder[i] \in DOMAIN rec
         THEN <<[k |-> FieldOrder[i], v |-> rec[FieldOrder[i]]]>> \o MarshalFrom(rec, i + 1)
         ELSE MarshalFrom(rec, i + 1)

Marshal(rec) ==
    IF DOMAIN rec \subseteq Fields
    THEN [ok |-> TRUE, data |-> MarshalFrom(rec, 1)]
    ELSE [ok |-> FALSE, data |-> <<>>]

\* json.Unmarshal of an object into a map or a struct that already exists:
\* every member of the text is stored under its key, and the keys the text
\* does not name keep the value they had.
RECURSIVE Unmarshal(_, _)
Unmarshal(data, into) ==
    IF data = <<>> THEN into
    ELSE LET m == Head(data)
             next == [k \in DOMAIN into \cup {m.k} |->
                         IF k = m.k THEN m.v ELSE into[k]]
         IN  Unmarshal(Tail(data), next)

\* A nil map, and a freshly allocated record struct.
NilRec == [k \in {} |-> Str("")]

(***************************************************************************)
(* The table directory                                                     *)
(***************************************************************************)

JsonExt == <<".", "j", "s", "o", "n">>

\* filePath: the file name of a record inside its table directory.
filePath(fileId) == fileId \o JsonExt

\* ioutil.ReadDir returns the directory sorted by file name;
\* fileIdsInDataDir strips the ".json" of every name, in that order.
RECURSIVE SortByName(_)
SortByName(ids) ==
    IF ids = {} THEN <<>>
    ELSE LET first == CHOOSE x \in ids :
                          \A y \in ids \ {x} : StrLess(filePath(x), filePath(y))
         IN  <<first>> \o SortByName(ids \ {first})

fileIdsInDataDir(tblFiles) == SortByName(DOMAIN tblFiles)

NoFiles == [id \in {} |-> <<>>]

\* ioutil.WriteFile and os.Remove on the table directory.
WriteFile(tblFiles, fileId, data) ==
    [id \in DOMAIN tblFiles \cup {fileId} |->
        IF id = fileId THEN data ELSE tblFiles[id]]

Remove(tblFiles, fileId) ==
    [id \in DOMAIN tblFiles \ {fileId} |-> tblFiles[id]]

\* loadRec reads a json file into the supplied record.
loadRec(tblFiles, rec, fileId) ==
    IF fileId \in DOMAIN tblFiles
    THEN [err |-> "nil", rec |-> Unmarshal(tblFiles[fileId], rec)]
    ELSE [err |-> "error", rec |-> rec]

\* nextAvailableFileId returns the next ascending available file id.
RECURSIVE MaxInt(_)
MaxInt(xs) ==
    LET x == CHOOSE y \in xs : TRUE
    IN  IF xs = {x} THEN x
        ELSE LET m == MaxInt(xs \ {x}) IN IF IntLess(m, x) THEN x ELSE m

nextAvailableFileId(tblFiles) ==
    LET ids == DOMAIN tblFiles
    IN  IF \E f \in ids : ~Atoi(f).ok THEN [err |-> "error", id |-> <<>>]
        ELSE IF ids = {} THEN [err |-> "nil", id |-> <<"1">>]
        ELSE [err |-> "nil", id |-> Itoa(IntInc(MaxInt({Atoi(f).val : f \in ids})))]

(***************************************************************************)
(* The index engine                                                        *)
(***************************************************************************)

NoBuckets == [v \in {} |-> <<>>]

\* A faulty AddToBucket: the bucket of key is replaced by the one id, so an
\* index keeps only the last id of every value.
AddToBucketOverwrite(index, key, fileId) ==
    [k \in DOMAIN index \cup {key} |-> IF k = key THEN <<fileId>> ELSE index[k]]

\* Adds fileId to the bucket of key in one index map, unless the bucket
\* holds it already (the stringInSlice test of both rebuilds).
AddToBucket(index, key, fileId) ==
    IF key \in DOMAIN index
    THEN IF stringInSlice(fileId, index[key]) THEN index
         ELSE [index EXCEPT ![key] = Append(@, fileId)]
    ELSE [k \in DOMAIN index \cup {key} |->
             IF k = key THEN <<fileId>> ELSE index[k]]

\* The inner loop of initNonTagsIndexes over the configured field names of
\* one decoded record.  rec[fldName].(string) panics when the field is
\* absent or is no string.
RECURSIVE FieldLoop(_, _, _, _, _)
FieldLoop(fldNames, j, rec, fileId, idx) ==
    IF j > Len(fldNames) THEN [err |-> "nil", idx |-> idx]
    ELSE LET fldName == fldNames[j]
         IN  IF fldName = "tags" THEN FieldLoop(fldNames, j + 1, rec, fileId, idx)
             ELSE IF fldName \notin DOMAIN rec \/ rec[fldName].t # "str"
                  THEN [err |-> "panic", idx |-> idx]
             ELSE FieldLoop(fldNames, j + 1, rec, fileId,
                      [idx EXCEPT ![fldName] = AddToBucket(@, rec[fldName].v[1], fileId)])

\* The loop of initNonTagsIndexes over the files of the directory.  rec is
\* declared once, before the loop: json.Unmarshal decodes every file into
\* the same map.
RECURSIVE NonTagsLoop(_, _, _, _, _, _)
NonTagsLoop(fldNames, tblFiles, ids, i, rec, idx) ==
    IF i > Len(ids) THEN [err |-> "nil", idx |-> idx]
    ELSE LET decoded == Unmarshal(tblFiles[ids[i]], rec)
             r == FieldLoop(fldNames, 1, decoded, ids[i], idx)
         IN  IF r.err # "nil" THEN r
             ELSE NonTagsLoop(fldNames, tblFiles, ids, i + 1, decoded, r.idx)

\* initNonTagsIndexes: the table's field index is emptied, given one empty
\* map per configured field other than "tags", and filled file by file.  A
\* panic leaves what was filled so far.
initNonTagsIndexes(fldNames, tblFiles) ==
    LET empty == [f \in {fldNames[j] : j \in 1..Len(fldNames)} \ {"tags"} |-> NoBuckets]
    IN  NonTagsLoop(fldNames, tblFiles, fileIdsInDataDir(tblFiles), 1, NilRec, empty)

\* The inner loop of initTagsIndex over the tags of one record.
RECURSIVE TagLoop(_, _, _, _)
TagLoop(tags, j, fileId, tagIndex) ==
    IF j > Len(tags) THEN tagIndex
    ELSE TagLoop(tags, j + 1, fileId, AddToBucket(tagIndex, tags[j], fileId))

\* The loop of initTagsIndex over the files of the directory, with the same
\* single rec.  rec["tags"].([]interface{}) panics when the field is absent
\* or is no array.
RECURSIVE TagsLoop(_, _, _, _, _)
TagsLoop(tblFiles, ids, i, rec, tagIndex) ==
    IF i > Len(ids) THEN [err |-> "nil", idx |-> tagIndex]
    ELSE LET decoded == Unmarshal(tblFiles[ids[i]], rec)
         IN  IF "tags" \notin DOMAIN decoded \/ decoded["tags"].t # "list"
             THEN [err |-> "panic", idx |-> tagIndex]
             ELSE TagsLoop(tblFiles, ids, i + 1, decoded,
                           TagLoop(decoded["tags"].v, 1, ids[i], tagIndex))

\* initTagsIndex: the entries of the table's tag index are deleted, the new
\* index is built aside and stored only when the loop ran to its end.
initTagsIndex(tblFiles) ==
    TagsLoop(tblFiles, fileIdsInDataDir(tblFiles), 1, NilRec, NoBuckets)

\* initTblIndexes on table tblName: the new values of db.fldIndexes and
\* db.tagIndexes and the error returned.  The value initTagsIndex returns is
\* dropped; a panic of either rebuild unwinds through the caller.
SetKey(map, key, val) ==
    [k \in DOMAIN map \cup {key} |-> IF k = key THEN val ELSE map[k]]

\* What initTblIndexes makes, on a configured table, of the result nt of
\* initNonTagsIndexes and the result tg of initTagsIndex.  An error nt
\* returns is returned.  The error tg returns is assigned to nothing: the
\* test that follows the call reads the err of initNonTagsIndexes, which is
\* nil there, and nil is returned.
initTblIndexesOf(cfg, tblName, fld, tag, nt, tg) ==
    LET fld2 == SetKey(fld, tblName, nt.idx)
        emptied == IF tblName \in DOMAIN tag THEN SetKey(tag, tblName, NoBuckets) ELSE tag
    IN  IF nt.err # "nil" THEN [err |-> nt.err, fld |-> fld2, tag |-> tag]
        ELSE IF ~stringInSlice("tags", cfg[tblName])
             THEN [err |-> "nil", fld |-> fld2, tag |-> tag]
        ELSE IF tg.err = "nil"
             THEN [err |-> "nil", fld |-> fld2, tag |-> SetKey(tag, tblName, tg.idx)]
        ELSE IF tg.err = "panic"
             THEN [err |-> "panic", fld |-> fld2, tag |-> emptied]
        ELSE [err |-> nt.err, fld |-> fld2, tag |-> emptied]

initTblIndexes(cfg, tblName, tblFiles, fld, tag) ==
    IF tblName \notin DOMAIN cfg THEN [err |-> "nil", fld |-> fld, tag |-> tag]
    ELSE initTblIndexesOf(cfg, tblName, fld, tag,
                          initNonTagsIndexes(cfg[tblName], tblFiles),
                          initTagsIndex(tblFiles))

\* The two rebuilds over a directory whose first file ioutil.ReadFile fails
\* to read: each has emptied its index and returns the error.
initNonTagsIndexesReadFails(fldNames) ==
    [err |-> "error",
     idx |-> [f \in {fldNames[j] : j \in 1..Len(fldNames)} \ {"tags"} |-> NoBuckets]]

initTagsIndexReadFails == [err |-> "error", idx |-> NoBuckets]

\* initTblIndexes when ReadFile fails during the rebuild named by phase
\* ("fields" or "tags") and succeeds during the other.
initTblIndexesReadFails(cfg, tblName, tblFiles, fld, tag, phase) ==
    IF tblName \notin DOMAIN cfg THEN [err |-> "nil", fld |-> fld, tag |-> tag]
    ELSE initTblIndexesOf(cfg, tblName, fld, tag,
                          IF phase = "fields"
                          THEN initNonTagsIndexesReadFails(cfg[tblName])
                          ELSE initNonTagsIndexes(cfg[tblName], tblFiles),
                          IF phase = "tags"
                          THEN initTagsIndexReadFails
                          ELSE initTagsIndex(tblFiles))

(***************************************************************************)
(* The query resolver                                                      *)
(***************************************************************************)

\* The scanning loop of FindAllIdsForField (lines 140-156), rec declared
\* once before the loop.
RECURSIVE ScanLoop(_, _, _, _, _, _, _)
ScanLoop(tblFiles, ids, i, rec, searchField, searchValue, found) ==
    IF i > Len(ids) THEN [err |-> "nil", ids |-> found]
    ELSE LET decoded == Unmarshal(tblFiles[ids[i]], rec)
         IN  IF searchField \notin DOMAIN decoded \/ decoded[searchField].t # "str"
             THEN [err |-> "panic", ids |-> <<>>]
             ELSE ScanLoop(tblFiles, ids, i + 1, decoded, searchField, searchValue,
                           IF decoded[searchField].v[1] = searchValue
                           THEN Append(found, ids[i]) ELSE found)

ScanIdsForField(tblFiles, searchField, searchValue) ==
    ScanLoop(tblFiles, fileIdsInDataDir(tblFiles), 1, NilRec, searchField, searchValue, <<>>)

\* db.fldIndexes[tblName][searchField][searchValue] with its ok flag.
HasBucket(fld, tblName, searchField, searchValue) ==
    /\ tblName \in DOMAIN fld
    /\ searchField \in DOMAIN fld[tblName]
    /\ searchValue \in DOMAIN fld[tblName][searchField]

\* FindAllIdsForField between RLock and RUnlock.
FindAllIdsForFieldBody(tblFiles, fld, tblName, searchField, searchValue) ==
    IF HasBucket(fld, tblName, searchField, searchValue)
    THEN [err |-> "nil", ids |-> fld[tblName][searchField][searchValue]]
    ELSE ScanIdsForField(tblFiles, searchField, searchValue)

\* FindFirstIdForField: results[0] of FindAllIdsForField; indexing an empty
\* slice panics.
FindFirstIdForFieldBody(tblFiles, fld, tblName, searchField, searchValue) ==
    LET r == FindAllIdsForFieldBody(tblFiles, fld, tblName, searchField, searchValue)
    IN  IF r.err # "nil" THEN [err |-> r.err, id |-> <<>>, results |-> r.ids]
        ELSE IF r.ids = <<>> THEN [err |-> "panic", id |-> <<>>, results |-> r.ids]
        ELSE [err |-> "nil", id |-> r.ids[1], results |-> r.ids]

\* The counting loops of FindAllIdsForTags: possibleMatchingFileIdsMap after
\* the search tags from position i on were counted.
RECURSIVE CountBucket(_, _, _)
CountBucket(fileIds, j, counts) ==
    IF j > Len(fileIds) THEN counts
    ELSE CountBucket(fileIds, j + 1,
             IF fileIds[j] \in DOMAIN counts
             THEN [counts EXCEPT ![fileIds[j]] = @ + 1]
             ELSE [k \in DOMAIN counts \cup {fileIds[j]} |->
                      IF k = fileIds[j] THEN 1 ELSE counts[k]])

RECURSIVE CountTags(_, _, _, _)
CountTags(tagIndex, searchTags, i, counts) ==
    IF i > Len(searchTags) THEN counts
    ELSE CountTags(tagIndex, searchTags, i + 1,
             IF searchTags[i] \in DOMAIN tagIndex
             THEN CountBucket(tagIndex[searchTags[i]], 1, counts)
             ELSE counts)

NoCounts == [k \in {} |-> 0]

TagIndexOf(tag, tblName) == IF tblName \in DOMAIN tag THEN tag[tblName] ELSE NoBuckets

\* A faulty FindAllIdsForTags: every id counted at least once is returned,
\* the ids of the records that hold any one of the search tags.
MatchingAnyTagIds(tag, tblName, searchTags) ==
    IF Len(searchTags) = 0 THEN {}
    ELSE DOMAIN CountTags(TagIndexOf(tag, tblName), searchTags, 1, NoCounts)

\* The ids FindAllIdsForTags returns, as a set: the keys of the map counted
\* as often as there are search tags.  The slice holds each of them once, in
\* the order of Go's map iteration.
MatchingTagIds(tag, tblName, searchTags) ==
    IF Len(searchTags) = 0 THEN {}
    ELSE LET counts == CountTags(TagIndexOf(tag, tblName), searchTags, 1, NoCounts)
         IN  {id \in DOMAIN counts : counts[id] = Len(searchTags)}

\* Every order a range over a map's keys can produce.
Orderings(S) ==
    {s \in [1..Cardinality(S) -> S] : \A i, j \in 1..Cardinality(S) : s[i] = s[j] => i = j}

(***************************************************************************)
(* Bounds and inputs                                                       *)
(***************************************************************************)

\* The most files a table directory holds in the model.
MaxFiles == 2

\* The table names callers pass; only those that were directories when the
\* database was opened have a lock.
Tables == {"posts", "notes"}

\* The index configurations OpenDB is given in the model: none, and one
\* that indexes a field and the tags of table "posts".
Configs ==
    { [t \in {} |-> <<>>],
      [t \in {"posts"} |-> <<"author", "tags">>] }

\* The records callers store: two complete ones (the second names a tag
\* twice), one without any field the configuration indexes, and one whose
\* author is a number.
RecA == [author |-> Str("a"), tags |-> List(<<"x", "y">>)]
RecB == [author |-> Str("b"), tags |-> List(<<"x", "x">>)]
RecEmpty == NilRec
RecNumAuthor == [author |-> Num("7"), tags |-> List(<<>>)]

Records == {RecA, RecB, RecEmpty, RecNumAuthor}

\* The identifiers callers pass to Find, Update and Delete: the canonical
\* ones, one that is no integer, and the largest int.
IdInputs == { <<"1">>, <<"2">>, <<"x">>, MaxIntMag }

SearchFields == {"author", "tags"}

SearchValues == {"a", "b", "z"}

TagInputs ==
    { <<>>, <<"x">>, <<"y">>, <<"z">>, <<"x", "y">>, <<"x", "x">>, <<"y", "z">> }

\* The goroutines that call the database at the same time.
NumProcs == 2

ProcNames == <<"g1", "g2", "g3", "g4">>

Procs == {ProcNames[i] : i \in 1..NumProcs}

\* What the concurrent callers pass.
ConcRecords == {RecA, RecEmpty}

ConcIds == { <<"1">>, <<"2">> }

ConcFindIds == { <<"1">> }

ConcValues == {"a"}

ConcTags == { <<"x", "y">> }

\* The record structs callers hand to Find: a fresh one, and one that still
\* holds a field from an earlier use.
OutInputs == {NilRec, [author |-> Str("old")]}

(***************************************************************************)
(* State                                                                   *)
(***************************************************************************)

VARIABLES
    fieldsToIndex,  \* db.fieldsToIndex: table -> configured field names
    rwLocks,        \* db.rwLocks: table -> state of its RWMutex
    fldIndexes,     \* db.fldIndexes: table -> field -> value -> ids
    tagIndexes,     \* db.tagIndexes: table -> tag -> ids
    files,          \* the table directories: table -> id -> JSON text
    rebuilt,        \* history: table -> the latest initTblIndexes on the table
                    \* ran to its end (no panic unwound it)
    last,           \* the call that has just returned, with what it returned,
                    \* until its caller has taken the result
    procs,          \* goroutine -> the call it is in and its position there
    created         \* history: table -> the id and record of the Create that
                    \* returned last without error, while no writer has
                    \* touched the table since

vars == <<fieldsToIndex, rwLocks, fldIndexes, tagIndexes, files, rebuilt, last,
          procs, created>>

\* A sync.RWMutex: the goroutines that hold it for reading, the one that
\* holds it for writing, and the one whose Lock is pending or granted.
FreeLock == [readers |-> {}, writer |-> "none", announced |-> "none"]

NoMap == [t \in {} |-> NoBuckets]

\* The outcome of a call: err is "nil", "error" (a non-nil error value) or
\* "panic"; id and rec are the identifier and the record of a Create, Update
\* or Delete; id, ids and out are what a query returned.
Call(op, tblName) ==
    [op |-> op, tbl |-> tblName, err |-> "nil", id |-> <<>>, rec |-> NilRec,
     ids |-> <<>>, out |-> NilRec]

NoCall == Call("none", "")

\* A goroutine outside every call.  pc is its position: "idle"; a reader is
\* "rlocked" (RLock returned) and "read" (result computed, RUnlock still to
\* run); a writer is "announced" (inside Lock, new readers are held back),
\* "locked", "mutated" (file written or removed), "fields" (field index
\* rebuilt) and "unlock" (about to return through the deferred Unlock).
\* hook is the call into the database that the AfterFind method of the
\* record handed to Find makes (NoHook: it makes none); a Find whose hook
\* calls is at "hook" while that call runs and at "hooked" once AfterFind
\* has returned.  todo is what is left of the range loop of Close, which is
\* at "closing" between two tables, at "closeannounced" inside Lock and at
\* "closelocked" between Lock and Unlock.  "fatal": the runtime has ended
\* the process.
NoHook == [op |-> "none", tbl |-> ""]

IdleProc ==
    [pc |-> "idle", op |-> "none", tbl |-> "", id |-> <<>>, rec |-> NilRec,
     fld |-> "", val |-> "", tags |-> <<>>, ids |-> <<>>, out |-> NilRec,
     err |-> "nil", snap |-> <<>>, hook |-> NoHook, todo |-> {}]

NoCreated == [set |-> FALSE, id |-> <<>>, rec |-> NilRec]

\* No call is waiting for its caller to take the result.
Idle == last = NoCall

\* OpenDB: a lock for every directory, then initTblIndexes for every
\* configured table.
RECURSIVE OpenIndexes(_, _, _, _, _)
OpenIndexes(cfg, todo, dirFiles, fld, tag) ==
    IF todo = {} THEN [err |-> "nil", fld |-> fld, tag |-> tag]
    ELSE LET t == CHOOSE x \in todo : TRUE
             r == initTblIndexes(cfg, t, dirFiles[t], fld, tag)
         IN  IF r.err # "nil" THEN r
             ELSE OpenIndexes(cfg, todo \ {t}, dirFiles, r.fld, r.tag)

OpenDB(dirFiles, cfg) == OpenIndexes(cfg, DOMAIN cfg, dirFiles, NoMap, NoMap)

\* The state after OpenDB on the empty table directories dirs under a
\* configuration of cfgs, with the callers (and their nested calls) frames.
InitOf(dirs, cfgs, frames) ==
    \E cfg \in cfgs :
        LET dirFiles == [t \in dirs |-> NoFiles]
            db == OpenDB(dirFiles, cfg)
        IN  /\ DOMAIN cfg \subseteq dirs
            /\ db.err = "nil"
            /\ fieldsToIndex = cfg
            /\ rwLocks = [t \in dirs |-> FreeLock]
            /\ fldIndexes = db.fld
            /\ tagIndexes = db.tag
            /\ files = dirFiles
            /\ rebuilt = [t \in dirs |-> TRUE]
            /\ last = NoCall
            /\ procs = [p \in frames |-> IdleProc]
            /\ created = [t \in dirs |-> NoCreated]

InitWith(dirs, cfgs) == InitOf(dirs, cfgs, Procs)

Init == InitWith({"posts"}, Configs)

\* A lock entry exists for the table; db.rwLocks[tblName] of any other name
\* is a nil pointer, and calling a method on it panics.
HasLock(tblName) == tblName \in DOMAIN rwLocks

NoLock(op) ==
    \E tblName \in Tables \ DOMAIN rwLocks :
        /\ last' = [Call(op, tblName) EXCEPT !.err = "panic"]
        /\ UNCHANGED <<fieldsToIndex, rwLocks, fldIndexes, tagIndexes, files, rebuilt, procs, created>>

Within(tblFiles) == Cardinality(DOMAIN tblFiles) <= MaxFiles

(***************************************************************************)
(* The public methods, each as one step (lock, body, unlock)               *)
(***************************************************************************)

\* Create between Lock and Unlock: the new files and indexes of the table,
\* what is returned, and whether initTblIndexes was reached (ran).
CreateBody(cfg, tblName, tblFiles, fld, tag, rec) ==
    LET next == nextAvailableFileId(tblFiles)
        m == Marshal(rec)
        same == [files |-> tblFiles, fld |-> fld, tag |-> tag, ran |-> FALSE]
    IN  IF next.err # "nil" THEN same @@ [err |-> "error", id |-> <<>>]
        ELSE IF ~m.ok THEN same @@ [err |-> "error", id |-> <<>>]
        ELSE LET written == WriteFile(tblFiles, next.id, m.data)
                 r == initTblIndexes(cfg, tblName, written, fld, tag)
             IN  [files |-> written, fld |-> r.fld, tag |-> r.tag, ran |-> TRUE,
                  err |-> r.err, id |-> next.id]

\* Update between Lock and Unlock.
UpdateBody(cfg, tblName, tblFiles, fld, tag, rec, fileId) ==
    LET m == Marshal(rec)
        same == [files |-> tblFiles, fld |-> fld, tag |-> tag, ran |-> FALSE]
    IN  IF ~Atoi(fileId).ok THEN same @@ [err |-> "error"]
        ELSE IF ~m.ok THEN same @@ [err |-> "error"]
        ELSE LET written == WriteFile(tblFiles, fileId, m.data)
                 r == initTblIndexes(cfg, tblName, written, fld, tag)
             IN  [files |-> written, fld |-> r.fld, tag |-> r.tag, ran |-> TRUE,
                  err |-> r.err]

\* A faulty Delete: the file is removed and the indexes are left as they
\* were.
DeleteBodyNoRebuild(cfg, tblName, tblFiles, fld, tag, fileId) ==
    IF fileId \notin DOMAIN tblFiles
    THEN [files |-> tblFiles, fld |-> fld, tag |-> tag, ran |-> FALSE, err |-> "error"]
    ELSE [files |-> Remove(tblFiles, fileId), fld |-> fld, tag |-> tag, ran |-> FALSE,
          err |-> "nil"]

\* A faulty Delete: it rebuilds the indexes although os.Remove failed.
DeleteBodyAlwaysRebuilds(cfg, tblName, tblFiles, fld, tag, fileId) ==
    LET removed == IF fileId \in DOMAIN tblFiles THEN Remove(tblFiles, fileId)
                   ELSE tblFiles
        r == initTblIndexes(cfg, tblName, removed, fld, tag)
    IN  [files |-> removed, fld |-> r.fld, tag |-> r.tag, ran |-> TRUE,
         err |-> IF fileId \in DOMAIN tblFiles THEN r.err ELSE "error"]

\* Delete between Lock and Unlock (the identifier was checked before).
DeleteBody(cfg, tblName, tblFiles, fld, tag, fileId) ==
    IF fileId \notin DOMAIN tblFiles
    THEN [files |-> tblFiles, fld |-> fld, tag |-> tag, ran |-> FALSE, err |-> "error"]
    ELSE LET removed == Remove(tblFiles, fileId)
             r == initTblIndexes(cfg, tblName, removed, fld, tag)
         IN  [files |-> removed, fld |-> r.fld, tag |-> r.tag, ran |-> TRUE,
              err |-> r.err]

\* Create, called with a record of recs.
CreateOf(recs) ==
    /\ Idle
    /\ \/ NoLock("Create")
       \/ \E tblName \in DOMAIN rwLocks, rec \in recs :
           \E r \in {CreateBody(fieldsToIndex, tblName, files[tblName],
                               fldIndexes, tagIndexes, rec)} :
               /\ Within(r.files)
               /\ files' = [files EXCEPT ![tblName] = r.files]
               /\ fldIndexes' = r.fld
               /\ tagIndexes' = r.tag
               /\ rebuilt' = IF r.ran THEN [rebuilt EXCEPT ![tblName] = (r.err = "nil")]
                             ELSE rebuilt
               /\ last' = [Call("Create", tblName) EXCEPT
                               !.rec = rec, !.id = r.id, !.err = r.err]
               /\ UNCHANGED <<fieldsToIndex, rwLocks, procs, created>>

Create == CreateOf(Records \cup {BadRec})

\* Update, called with a record of recs and an identifier of ids.
UpdateOf(recs, ids) ==
    /\ Idle
    /\ \/ NoLock("Update")
       \/ \E tblName \in DOMAIN rwLocks, rec \in recs, fileId \in ids :
           \E r \in {UpdateBody(fieldsToIndex, tblName, files[tblName],
                               fldIndexes, tagIndexes, rec, fileId)} :
               /\ Within(r.files)
               /\ files' = [files EXCEPT ![tblName] = r.files]
               /\ fldIndexes' = r.fld
               /\ tagIndexes' = r.tag
               /\ rebuilt' = IF r.ran THEN [rebuilt EXCEPT ![tblName] = (r.err = "nil")]
                             ELSE rebuilt
               /\ last' = [Call("Update", tblName) EXCEPT
                               !.rec = rec, !.id = fileId, !.err = r.err]
               /\ UNCHANGED <<fieldsToIndex, rwLocks, procs, created>>

Update == UpdateOf(Records \cup {BadRec}, IdInputs)

\* Delete, called with an identifier of ids.
DeleteOf(ids) ==
    /\ Idle
    /\ \/ \E tblName \in Tables, fileId \in ids :
           /\ ~Atoi(fileId).ok
           /\ last' = [Call("Delete", tblName) EXCEPT !.id = fileId, !.err = "error"]
           /\ UNCHANGED <<fieldsToIndex, rwLocks, fldIndexes, tagIndexes, files, rebuilt, procs, created>>
       \/ \E tblName \in Tables \ DOMAIN rwLocks, fileId \in ids :
           /\ Atoi(fileId).ok
           /\ last' = [Call("Delete", tblName) EXCEPT !.id = fileId, !.err = "panic"]
           /\ UNCHANGED <<fieldsToIndex, rwLocks, fldIndexes, tagIndexes, files, rebuilt, procs, created>>
       \/ \E tblName \in DOMAIN rwLocks, fileId \in ids :
           \E r \in {DeleteBody(fieldsToIndex, tblName, files[tblName],
                               fldIndexes, tagIndexes, fileId)} :
               /\ Atoi(fileId).ok
               /\ files' = [files EXCEPT ![tblName] = r.files]
               /\ fldIndexes' = r.fld
               /\ tagIndexes' = r.tag
               /\ rebuilt' = IF r.ran THEN [rebuilt EXCEPT ![tblName] = (r.err = "nil")]
                             ELSE rebuilt
               /\ last' = [Call("Delete", tblName) EXCEPT !.id = fileId, !.err = r.err]
               /\ UNCHANGED <<fieldsToIndex, rwLocks, procs, created>>

Delete == DeleteOf(IdInputs)

\* Find: loadRec, then the caller's AfterFind hook, which the model takes to
\* leave the record as loaded.
Find ==
    /\ Idle
    /\ \/ NoLock("Find")
       \/ \E tblName \in DOMAIN rwLocks, fileId \in IdInputs, out \in OutInputs :
           LET r == loadRec(files[tblName], out, fileId)
           IN  /\ last' = [Call("Find", tblName) EXCEPT
                               !.id = fileId, !.rec = out, !.out = r.rec, !.err = r.err]
               /\ UNCHANGED <<fieldsToIndex, rwLocks, fldIndexes, tagIndexes, files, rebuilt, procs, created>>

FindAllIds ==
    /\ Idle
    /\ \/ NoLock("FindAllIds")
       \/ \E tblName \in DOMAIN rwLocks :
           /\ last' = [Call("FindAllIds", tblName) EXCEPT
                           !.ids = fileIdsInDataDir(files[tblName])]
           /\ UNCHANGED <<fieldsToIndex, rwLocks, fldIndexes, tagIndexes, files, rebuilt, procs, created>>

FindAllIdsForField ==
    /\ Idle
    /\ \/ NoLock("FindAllIdsForField")
       \/ \E tblName \in DOMAIN rwLocks, searchField \in SearchFields, searchValue \in SearchValues :
           LET r == FindAllIdsForFieldBody(files[tblName], fldIndexes, tblName,
                                           searchField, searchValue)
           IN  /\ last' = [Call("FindAllIdsForField", tblName) EXCEPT
                               !.ids = r.ids, !.err = r.err]
               /\ UNCHANGED <<fieldsToIndex, rwLocks, fldIndexes, tagIndexes, files, rebuilt, procs, created>>

FindFirstIdForField ==
    /\ Idle
    /\ \/ NoLock("FindFirstIdForField")
       \/ \E tblName \in DOMAIN rwLocks, searchField \in SearchFields, searchValue \in SearchValues :
           LET r == FindFirstIdForFieldBody(files[tblName], fldIndexes, tblName,
                                            searchField, searchValue)
           IN  /\ last' = [Call("FindFirstIdForField", tblName) EXCEPT
                               !.id = r.id, !.ids = r.results, !.err = r.err]
               /\ UNCHANGED <<fieldsToIndex, rwLocks, fldIndexes, tagIndexes, files, rebuilt, procs, created>>

FindAllIdsForTags ==
    /\ Idle
    /\ \/ NoLock("FindAllIdsForTags")
       \/ \E tblName \in DOMAIN rwLocks, searchTags \in TagInputs :
           \E ids \in Orderings(MatchingTagIds(tagIndexes, tblName, searchTags)) :
               /\ last' = [Call("FindAllIdsForTags", tblName) EXCEPT !.ids = ids]
               /\ UNCHANGED <<fieldsToIndex, rwLocks, fldIndexes, tagIndexes, files, rebuilt, procs, created>>

\* Close locks and unlocks every table's lock in turn and changes nothing.
Close ==
    /\ Idle
    /\ last' = Call("Close", "")
    /\ UNCHANGED <<fieldsToIndex, rwLocks, fldIndexes, tagIndexes, files, rebuilt, procs, created>>

\* The caller takes the result; the next call can start.
Return ==
    /\ ~Idle
    /\ last' = NoCall
    /\ UNCHANGED <<fieldsToIndex, rwLocks, fldIndexes, tagIndexes, files, rebuilt, procs, created>>

Next ==
    \/ Create
    \/ Update
    \/ Delete
    \/ Find
    \/ FindAllIds
    \/ FindAllIdsForField
    \/ FindFirstIdForField
    \/ FindAllIdsForTags
    \/ Close
    \/ Return

Spec == Init /\ [][Next]_vars

(***************************************************************************)
(* The public methods step by step, called by several goroutines           *)
(***************************************************************************)

\* Faulty locks: an RLock that returns whatever the writers do, and a Lock
\* that returns without waiting for the readers to leave.
CanRLockAlways(lock) == lock.readers = lock.readers

CanLockAlways(lock) == lock.writer = lock.writer

\* RLock returns while no Lock is pending or granted.
CanRLock(lock) == lock.announced = "none"

\* A faulty Lock: a second writer enters while the first is inside.
CanAnnounceAlways(lock) == lock.announced = lock.announced

\* Lock lets one writer in at a time, which holds new readers back from
\* then on, and returns when the readers that hold the lock have left.
CanAnnounce(lock) == lock.announced = "none"

CanLock(lock) == lock.readers = {}

\* The calls the goroutines make, with their arguments.
ReadCalls ==
    {[IdleProc EXCEPT !.op = "Find", !.id = fileId] : fileId \in ConcFindIds}
    \cup {[IdleProc EXCEPT !.op = "FindAllIds"]}
    \cup {[IdleProc EXCEPT !.op = "FindAllIdsForField", !.fld = "author", !.val = value] :
             value \in ConcValues}
    \cup {[IdleProc EXCEPT !.op = "FindAllIdsForTags", !.tags = searchTags] :
             searchTags \in ConcTags}

WriteCalls ==
    {[IdleProc EXCEPT !.op = "Create", !.rec = rec] : rec \in ConcRecords}
    \cup {[IdleProc EXCEPT !.op = "Update", !.rec = rec, !.id = fileId] :
             rec \in ConcRecords, fileId \in ConcIds}
    \cup {[IdleProc EXCEPT !.op = "Delete", !.id = fileId] : fileId \in ConcIds}

\* What a reader can see of a table.
TableState(tblName) == <<files[tblName], fldIndexes, tagIndexes>>

\* The call keeps the table within MaxFiles files.
FitsTable(call, tblFiles) ==
    \/ call.op = "Delete"
    \/ call.op = "Update" /\ call.id \in DOMAIN tblFiles
    \/ Cardinality(DOMAIN tblFiles) < MaxFiles

\* A reader calls RLock, which returns; snap records what the table was then.
RLockOf(p, calls) ==
    /\ procs[p].pc = "idle"
    /\ \E tblName \in DOMAIN rwLocks, call \in calls :
        /\ CanRLock(rwLocks[tblName])
        /\ rwLocks' = [rwLocks EXCEPT ![tblName].readers = @ \cup {p}]
        /\ procs' = [procs EXCEPT ![p] =
                        [call EXCEPT !.pc = "rlocked", !.tbl = tblName,
                                     !.snap = TableState(tblName)]]
    /\ UNCHANGED <<fieldsToIndex, fldIndexes, tagIndexes, files, rebuilt, last, created>>

RLock(p) == RLockOf(p, ReadCalls)

\* What the body of a read returns, from the files and indexes as they are.
ReadResults(c) ==
    CASE c.op = "Find" ->
            LET r == loadRec(files[c.tbl], NilRec, c.id)
            IN  {[c EXCEPT !.pc = "read", !.out = r.rec, !.err = r.err]}
      [] c.op = "FindAllIds" ->
            {[c EXCEPT !.pc = "read", !.ids = fileIdsInDataDir(files[c.tbl])]}
      [] c.op = "FindAllIdsForField" ->
            LET r == FindAllIdsForFieldBody(files[c.tbl], fldIndexes, c.tbl, c.fld, c.val)
            IN  {[c EXCEPT !.pc = "read", !.ids = r.ids, !.err = r.err]}
      [] OTHER ->
            {[c EXCEPT !.pc = "read", !.ids = ids] :
                ids \in Orderings(MatchingTagIds(tagIndexes, c.tbl, c.tags))}

\* The body of a read between RLock and RUnlock (for Find, with the
\* AfterFind hook).
ReadBody(p) ==
    /\ procs[p].pc = "rlocked"
    /\ \E r \in ReadResults(procs[p]) : procs' = [procs EXCEPT ![p] = r]
    /\ UNCHANGED <<fieldsToIndex, rwLocks, fldIndexes, tagIndexes, files, rebuilt, last,
                   created>>

\* Find calls rec.AfterFind(db, fileId) when loadRec returned no error.
RunsHook(c) == c.op = "Find" /\ c.err = "nil" /\ c.hook # NoHook

\* A faulty Find: it returns without waiting for AfterFind.
ReadDoneAlways(c) == c.pc \in {"read", "hooked"}

\* The body of the read has run to its return statement: for Find, the
\* hook it calls has returned.
ReadDone(c) == c.pc = "hooked" \/ (c.pc = "read" /\ ~RunsHook(c))

\* The deferred RUnlock; the read returns.
RUnlock(p) ==
    /\ ReadDone(procs[p])
    /\ rwLocks' = [rwLocks EXCEPT ![procs[p].tbl].readers = @ \ {p}]
    /\ procs' = [procs EXCEPT ![p] = IdleProc]
    /\ UNCHANGED <<fieldsToIndex, fldIndexes, tagIndexes, files, rebuilt, last, created>>

\* A writer calls Lock: from now on RLock of other goroutines waits.
LockOf(p, calls) ==
    /\ procs[p].pc = "idle"
    /\ \E tblName \in DOMAIN rwLocks, call \in calls :
        /\ CanAnnounce(rwLocks[tblName])
        /\ FitsTable(call, files[tblName])
        /\ rwLocks' = [rwLocks EXCEPT ![tblName].announced = p]
        /\ procs' = [procs EXCEPT ![p] = [call EXCEPT !.pc = "announced", !.tbl = tblName]]
    /\ UNCHANGED <<fieldsToIndex, fldIndexes, tagIndexes, files, rebuilt, last, created>>

Lock(p) == LockOf(p, WriteCalls)

\* Lock returns.
Acquire(p) ==
    /\ procs[p].pc = "announced"
    /\ CanLock(rwLocks[procs[p].tbl])
    /\ rwLocks' = [rwLocks EXCEPT ![procs[p].tbl].writer = p]
    /\ procs' = [procs EXCEPT ![p].pc = "locked"]
    /\ UNCHANGED <<fieldsToIndex, fldIndexes, tagIndexes, files, rebuilt, last, created>>

\* The file mutation of a writer: the files of the table after it, the id
\* under which it wrote, and the error that ends the call before any file
\* is touched.
MutateResult(c, tblFiles) ==
    LET m == Marshal(c.rec)
        next == nextAvailableFileId(tblFiles)
        failed == [files |-> tblFiles, id |-> c.id, err |-> "error"]
    IN  CASE c.op = "Create" ->
                IF next.err # "nil" \/ ~m.ok THEN failed
                ELSE [files |-> WriteFile(tblFiles, next.id, m.data), id |-> next.id,
                      err |-> "nil"]
          [] c.op = "Update" ->
                IF ~Atoi(c.id).ok \/ ~m.ok THEN failed
                ELSE [files |-> WriteFile(tblFiles, c.id, m.data), id |-> c.id,
                      err |-> "nil"]
          [] OTHER ->
                IF c.id \notin DOMAIN tblFiles THEN failed
                ELSE [files |-> Remove(tblFiles, c.id), id |-> c.id, err |-> "nil"]

Mutate(p) ==
    /\ procs[p].pc = "locked"
    /\ \E tblName \in {procs[p].tbl} :
        \E r \in {MutateResult(procs[p], files[tblName])} :
           IF r.err # "nil"
           THEN /\ procs' = [procs EXCEPT ![p].pc = "unlock", ![p].err = r.err]
                /\ UNCHANGED <<files, rebuilt, created>>
           ELSE /\ files' = [files EXCEPT ![tblName] = r.files]
                /\ procs' = [procs EXCEPT ![p].pc = "mutated", ![p].id = r.id]
                /\ rebuilt' = [rebuilt EXCEPT ![tblName] = FALSE]
                /\ created' = [created EXCEPT ![tblName] = NoCreated]
    /\ UNCHANGED <<fieldsToIndex, rwLocks, fldIndexes, tagIndexes, last>>

\* initTblIndexes up to the end of initNonTagsIndexes.
RebuildFields(p) ==
    /\ procs[p].pc = "mutated"
    /\ \E tblName \in {procs[p].tbl} :
           IF tblName \notin DOMAIN fieldsToIndex
           THEN /\ procs' = [procs EXCEPT ![p].pc = "unlock"]
                /\ rebuilt' = [rebuilt EXCEPT ![tblName] = TRUE]
                /\ UNCHANGED fldIndexes
           ELSE \E nt \in {initNonTagsIndexes(fieldsToIndex[tblName], files[tblName])} :
                \E more \in {nt.err = "nil" /\ stringInSlice("tags", fieldsToIndex[tblName])} :
                    /\ fldIndexes' = SetKey(fldIndexes, tblName, nt.idx)
                    /\ procs' = [procs EXCEPT ![p].pc = IF more THEN "fields" ELSE "unlock",
                                              ![p].err = nt.err]
                    /\ rebuilt' = [rebuilt EXCEPT ![tblName] = nt.err = "nil" /\ ~more]
    /\ UNCHANGED <<fieldsToIndex, rwLocks, tagIndexes, files, last, created>>

\* initTagsIndex, the rest of initTblIndexes.
RebuildTags(p) ==
    /\ procs[p].pc = "fields"
    /\ \E tblName \in {procs[p].tbl} :
        \E tg \in {initTagsIndex(files[tblName])} :
           /\ tagIndexes' = IF tg.err = "nil" THEN SetKey(tagIndexes, tblName, tg.idx)
                            ELSE IF tblName \in DOMAIN tagIndexes
                                 THEN SetKey(tagIndexes, tblName, NoBuckets)
                                 ELSE tagIndexes
           /\ procs' = [procs EXCEPT ![p].pc = "unlock", ![p].err = tg.err]
           /\ rebuilt' = [rebuilt EXCEPT ![tblName] = tg.err = "nil"]
    /\ UNCHANGED <<fieldsToIndex, rwLocks, fldIndexes, files, last, created>>

\* A faulty writer: it unlocks before its return statement instead of
\* deferring the Unlock, and so keeps the lock when it returns an error.
UnlockOnSuccess(p) ==
    /\ procs[p].pc = "unlock"
    /\ LET c == procs[p]
       IN  /\ rwLocks' = IF c.err = "nil"
                         THEN [rwLocks EXCEPT ![c.tbl].writer = "none",
                                              ![c.tbl].announced = "none"]
                         ELSE rwLocks
           /\ created' = IF c.op = "Create" /\ c.err = "nil"
                         THEN [created EXCEPT ![c.tbl] =
                                  [set |-> TRUE, id |-> c.id, rec |-> c.rec]]
                         ELSE created
    /\ procs' = [procs EXCEPT ![p] = IdleProc]
    /\ UNCHANGED <<fieldsToIndex, fldIndexes, tagIndexes, files, rebuilt, last>>

\* The deferred Unlock; the writer returns.
Unlock(p) ==
    /\ procs[p].pc = "unlock"
    /\ LET c == procs[p]
       IN  /\ rwLocks' = [rwLocks EXCEPT ![c.tbl].writer = "none",
                                         ![c.tbl].announced = "none"]
           /\ created' = IF c.op = "Create" /\ c.err = "nil"
                         THEN [created EXCEPT ![c.tbl] =
                                  [set |-> TRUE, id |-> c.id, rec |-> c.rec]]
                         ELSE created
    /\ procs' = [procs EXCEPT ![p] = IdleProc]
    /\ UNCHANGED <<fieldsToIndex, fldIndexes, tagIndexes, files, rebuilt, last>>

NextConc ==
    \E p \in Procs :
        \/ RLock(p)
        \/ ReadBody(p)
        \/ RUnlock(p)
        \/ Lock(p)
        \/ Acquire(p)
        \/ Mutate(p)
        \/ RebuildFields(p)
        \/ RebuildTags(p)
        \/ Unlock(p)

SpecConc == Init /\ [][NextConc]_vars

(***************************************************************************)
(* What the claims speak of                                                *)
(***************************************************************************)

ToSet(seq) == {seq[i] : i \in 1..Len(seq)}

Mutations == {"Create", "Update", "Delete"}

\* A record's own stored content: its file decoded on its own.
Own(tblFiles, fileId) == Unmarshal(tblFiles[fileId], NilRec)

HasField(rec, fldName, value) == fldName \in DOMAIN rec /\ rec[fldName] = Str(value)

HasTag(rec, tagName) ==
    /\ "tags" \in DOMAIN rec
    /\ rec["tags"].t = "list"
    /\ tagName \in ToSet(rec["tags"].v)

\* The ids whose own record has the value in the field, and those whose own
\* tags hold every one of the tags.
IdsWithField(tblFiles, fldName, value) ==
    {id \in DOMAIN tblFiles : HasField(Own(tblFiles, id), fldName, value)}

IdsWithTags(tblFiles, tagNames) ==
    {id \in DOMAIN tblFiles : \A tg \in tagNames : HasTag(Own(tblFiles, id), tg)}

IndexedFields(tblName) == ToSet(fieldsToIndex[tblName]) \ {"tags"}

TagsConfigured(tblName) ==
    tblName \in DOMAIN fieldsToIndex /\ stringInSlice("tags", fieldsToIndex[tblName])

BucketSet(tblName, fldName, value) ==
    IF HasBucket(fldIndexes, tblName, fldName, value)
    THEN ToSet(fldIndexes[tblName][fldName][value]) ELSE {}

TagBucketSet(tblName, tagName) ==
    IF tagName \in DOMAIN TagIndexOf(tagIndexes, tblName)
    THEN ToSet(TagIndexOf(tagIndexes, tblName)[tagName]) ELSE {}

FieldKeys(tblName, fldName) ==
    SearchValues \cup
    (IF tblName \in DOMAIN fldIndexes /\ fldName \in DOMAIN fldIndexes[tblName]
     THEN DOMAIN fldIndexes[tblName][fldName] ELSE {})

TagKeys(tblName) == {"x", "y", "z"} \cup DOMAIN TagIndexOf(tagIndexes, tblName)

ExactFieldIndex(tblName) ==
    \A fldName \in IndexedFields(tblName) : \A value \in FieldKeys(tblName, fldName) :
        BucketSet(tblName, fldName, value) = IdsWithField(files[tblName], fldName, value)

ExactTagIndex(tblName) ==
    \A tagName \in TagKeys(tblName) :
        TagBucketSet(tblName, tagName) = IdsWithTags(files[tblName], {tagName})

\* C1: whenever Create, Update or Delete on a table with index
\* configuration has returned without error, every bucket of the table's
\* field index and tag index holds exactly the ids of the records whose own
\* content has that value or tag.
C1_IndexesExactAfterMutation ==
    (last.op \in Mutations /\ last.err = "nil" /\ last.tbl \in DOMAIN fieldsToIndex)
    => /\ ExactFieldIndex(last.tbl)
       /\ TagsConfigured(last.tbl) => ExactTagIndex(last.tbl)

\* What the scanning fallback returns, as the outcome "panic" or the set of
\* ids; the field index answers with the bucket of the value, and with no id
\* for a value that has no bucket.
Outcome(r) == IF r.err = "nil" THEN [err |-> "nil", ids |-> ToSet(r.ids)]
              ELSE [err |-> r.err, ids |-> {}]

IndexAgreesWithScan(tblName) ==
    \A fldName \in IndexedFields(tblName) : \A value \in FieldKeys(tblName, fldName) :
        Outcome(ScanIdsForField(files[tblName], fldName, value))
        = [err |-> "nil", ids |-> BucketSet(tblName, fldName, value)]

\* C2 as stated: in every reachable state of a table with index
\* configuration, for every configured field and every value, the field
\* index answers FindAllIdsForField with the ids the scanning fallback
\* would return.
C2_IndexAgreesWithScanAlways ==
    \A tblName \in DOMAIN fieldsToIndex : IndexAgreesWithScan(tblName)

\* C2 as amended: the same, in the states in which the table's latest index
\* rebuild ran to its end.
C2_IndexAgreesWithScanWhenRebuilt ==
    \A tblName \in DOMAIN fieldsToIndex :
        rebuilt[tblName] => IndexAgreesWithScan(tblName)

\* C2's case: a rebuilt field index holds a bucket of two ids, and one whose
\* record was scanned after a record of another value.
C2_Witness ==
    /\ "posts" \in DOMAIN fieldsToIndex
    /\ rebuilt["posts"]
    /\ last.op \in Mutations
    /\ \E value \in SearchValues : Cardinality(BucketSet("posts", "author", value)) = 2

\* C4: for a table with "tags" configured whose tag index matches the
\* records' own tags, FindAllIdsForTags returns for every request exactly
\* the ids whose own tags hold every requested tag (a repeated tag and an
\* unknown tag included), each id once, and nothing for the empty request.
C4_TagsSupersetSemantics ==
    \A tblName \in DOMAIN rwLocks :
        (TagsConfigured(tblName) /\ ExactTagIndex(tblName))
        => /\ \A searchTags \in TagInputs :
                MatchingTagIds(tagIndexes, tblName, searchTags)
                = IF searchTags = <<>> THEN {}
                  ELSE IdsWithTags(files[tblName], ToSet(searchTags))
           /\ (last.op = "FindAllIdsForTags" /\ last.tbl = tblName)
              => Cardinality(ToSet(last.ids)) = Len(last.ids)

\* C4's case: FindAllIdsForTags has answered on such a table that holds a
\* record with both tags and a record with one of them, and a request that
\* repeats a tag matches.
C4_Witness ==
    /\ TagsConfigured("posts")
    /\ ExactTagIndex("posts")
    /\ last.op = "FindAllIdsForTags"
    /\ Len(last.ids) = 2
    /\ Cardinality(IdsWithTags(files["posts"], {"x", "y"})) = 1
    /\ MatchingTagIds(tagIndexes, "posts", <<"x", "x">>) # {}
    /\ MatchingTagIds(tagIndexes, "posts", <<"y", "z">>) = {}

\* C8: on a table without index configuration, FindAllIdsForField that
\* returns normally returns exactly the ids of the records whose own stored
\* field equals the value.
C8_ScanReturnsOwnMatches ==
    \A tblName \in DOMAIN rwLocks \ DOMAIN fieldsToIndex :
        \A searchField \in SearchFields, searchValue \in SearchValues :
            LET r == FindAllIdsForFieldBody(files[tblName], fldIndexes, tblName,
                                            searchField, searchValue)
            IN  r.err = "nil"
                => ToSet(r.ids) = IdsWithField(files[tblName], searchField, searchValue)

\* C10: when no record of the table matches, FindFirstIdForField returns an
\* error value: it neither panics nor returns an empty id with a nil error.
C10_NoMatchIsAnError ==
    (/\ last.op = "FindFirstIdForField"
     /\ last.tbl \in DOMAIN rwLocks
     /\ \A searchField \in SearchFields, searchValue \in SearchValues :
            FindAllIdsForFieldBody(files[last.tbl], fldIndexes, last.tbl,
                                   searchField, searchValue)
            = [err |-> "nil", ids |-> <<>>])
    => last.err = "error"

\* x + 1 on the integers, without a width.
PlusOne(x) ==
    IF x.neg THEN MkInt(TRUE, MagDec(x.mag)) ELSE MkInt(FALSE, MagInc(x.mag))

\* The identifier C5 expects of a Create on a table that holds tblFiles.
MaxPlusOne(tblFiles) ==
    IF DOMAIN tblFiles = {} THEN <<"1">>
    ELSE Itoa(PlusOne(MaxInt({Atoi(f).val : f \in DOMAIN tblFiles})))

\* C5: a Create that returns without error returns the decimal string of
\* the largest integer among the ids present before it, plus one ("1" for
\* an empty table), stores its record under that id, and leaves every
\* record that was present as it was.
C5_CreateReturnsMaxPlusOne ==
    [][(last'.op = "Create" /\ last'.err = "nil" /\ last'.tbl \in DOMAIN rwLocks)
       => /\ last'.id = MaxPlusOne(files[last'.tbl])
          /\ last'.id \notin DOMAIN files[last'.tbl]
          /\ last'.id \in DOMAIN files'[last'.tbl]
          /\ files'[last'.tbl][last'.id] = Marshal(last'.rec).data]_vars

\* The places in which C6 looks for an id: the buckets of both indexes, the
\* directory listing, and the results of the two searches, for a table of
\* files tblFiles under the indexes fld and tag.
AppearsIn(tblFiles, fld, tag, tblName, fileId) ==
    \/ fileId \in ToSet(fileIdsInDataDir(tblFiles))
    \/ /\ tblName \in DOMAIN fld
       /\ \E fldName \in DOMAIN fld[tblName] :
              \E value \in DOMAIN fld[tblName][fldName] :
                  fileId \in ToSet(fld[tblName][fldName][value])
    \/ \E tagName \in DOMAIN TagIndexOf(tag, tblName) :
           fileId \in ToSet(TagIndexOf(tag, tblName)[tagName])
    \/ \E searchField \in SearchFields, searchValue \in SearchValues :
           fileId \in ToSet(FindAllIdsForFieldBody(tblFiles, fld, tblName,
                                                   searchField, searchValue).ids)
    \/ \E searchTags \in TagInputs :
           fileId \in MatchingTagIds(tag, tblName, searchTags)

\* A Create or Update has just stored a record under the id.
Stores(tblName, fileId) ==
    /\ last'.op \in {"Create", "Update"}
    /\ last'.tbl = tblName
    /\ last'.id = fileId
    /\ fileId \in DOMAIN files'[tblName]

\* C6: when Delete(table, id) returns without error the id appears in no
\* bucket, no listing and no search result of the table, and an id that
\* appears nowhere keeps appearing nowhere through every step that is not a
\* Create or Update storing a record under it.
C6_DeletedIdAppearsNowhere ==
    [][\A tblName \in DOMAIN rwLocks : \A fileId \in IdInputs :
          /\ (last'.op = "Delete" /\ last'.tbl = tblName /\ last'.id = fileId
                  /\ last'.err = "nil")
             => ~AppearsIn(files'[tblName], fldIndexes', tagIndexes', tblName, fileId)
          /\ (/\ <<files, fldIndexes, tagIndexes>>' # <<files, fldIndexes, tagIndexes>>
              /\ ~Stores(tblName, fileId)
              /\ ~AppearsIn(files[tblName], fldIndexes, tagIndexes, tblName, fileId))
             => ~AppearsIn(files'[tblName], fldIndexes', tagIndexes', tblName, fileId)]_vars

\* C6's case: Delete has removed record "1" of an indexed table that still
\* holds record "2" in a bucket of each index.
C6_Witness ==
    /\ last.op = "Delete"
    /\ last.err = "nil"
    /\ last.id = <<"1">>
    /\ TagsConfigured("posts")
    /\ <<"2">> \in DOMAIN files["posts"]
    /\ \E value \in SearchValues : <<"2">> \in BucketSet("posts", "author", value)
    /\ <<"2">> \in TagBucketSet("posts", "x")

\* Find on the record struct out reproduces every field of rec.
Reproduces(tblFiles, fileId, rec) ==
    \A out \in OutInputs :
        LET r == loadRec(tblFiles, out, fileId)
        IN  /\ r.err = "nil"
            /\ \A fldName \in DOMAIN rec :
                   fldName \in DOMAIN r.rec /\ r.rec[fldName] = rec[fldName]

\* C9: when Create returns an id without error, Find of that id reproduces
\* every field of the record, and a record that is present stays as it is
\* through every step that is not an Update or a Delete of its id.
C9_CreateFindRoundTrip ==
    [][/\ (last'.op = "Create" /\ last'.err = "nil" /\ last'.tbl \in DOMAIN rwLocks)
          => Reproduces(files'[last'.tbl], last'.id, last'.rec)
       /\ \A tblName \in DOMAIN rwLocks : \A fileId \in DOMAIN files[tblName] :
              ~(last'.op \in {"Update", "Delete"} /\ last'.tbl = tblName
                    /\ last'.id = fileId)
              => /\ fileId \in DOMAIN files'[tblName]
                 /\ files'[tblName][fileId] = files[tblName][fileId]]_vars

\* The goroutines inside a read and inside a write of the table.
InRead(p, tblName) == procs[p].tbl = tblName /\ procs[p].pc \in {"rlocked", "read"}

InWrite(p, tblName) ==
    procs[p].tbl = tblName /\ procs[p].pc \in {"locked", "mutated", "fields", "unlock"}

\* C3: while a read of a table is between RLock and RUnlock, no Create,
\* Update or Delete of the table is between Lock and Unlock, and files and
\* indexes are what they were when RLock returned; no two writers of a
\* table are between Lock and Unlock together.
C3_ReadersExcludeWriters ==
    \A tblName \in DOMAIN rwLocks : \A p \in Procs :
        /\ InRead(p, tblName)
           => /\ \A q \in Procs : ~InWrite(q, tblName)
              /\ procs[p].snap = TableState(tblName)
        /\ InWrite(p, tblName)
           => \A q \in Procs \ {p} : ~InWrite(q, tblName)

\* C3's case: a read holds the lock of a table that has a record while a
\* writer of that table waits inside Lock.
C3_Witness ==
    \E p, q \in Procs :
        /\ InRead(p, "posts")
        /\ procs[p].pc = "read"
        /\ procs[q].pc = "announced"
        /\ procs[q].tbl = "posts"
        /\ files["posts"] # NoFiles

\* A read shows the record that Create stored under fileId.
Observes(c, tblName, fileId, rec) ==
    /\ c.op = "FindAllIds" => fileId \in ToSet(c.ids)
    /\ c.op = "Find" /\ c.id = fileId => c.err = "nil"
    /\ (/\ c.op = "FindAllIdsForField"
        /\ tblName \in DOMAIN fieldsToIndex
        /\ c.fld \in IndexedFields(tblName)
        /\ HasField(rec, c.fld, c.val))
       => c.err = "nil" /\ fileId \in ToSet(c.ids)
    /\ (/\ c.op = "FindAllIdsForTags"
        /\ TagsConfigured(tblName)
        /\ c.tags # <<>>
        /\ \A i \in 1..Len(c.tags) : HasTag(rec, c.tags[i]))
       => fileId \in ToSet(c.ids)

TableOps ==
    {"Find", "FindAllIds", "FindAllIdsForField", "FindAllIdsForTags",
     "Create", "Update", "Delete"}

\* C11: a public method called with a table name that has no lock entry
\* returns an error value to its caller; it does not panic.
C11_UnknownTableIsAnError ==
    (last.op \in TableOps /\ last.tbl \in Tables \ DOMAIN rwLocks)
    => last.err = "error"

\* C20: on a table for which no tag index is built, FindAllIdsForTags
\* returns, for every non-empty request, exactly the ids of the records
\* whose stored tags contain every requested tag.
C20_TagsScanFallback ==
    \A tblName \in DOMAIN rwLocks :
        ~TagsConfigured(tblName)
        => \A searchTags \in TagInputs \ {<<>>} :
               MatchingTagIds(tagIndexes, tblName, searchTags)
               = IdsWithTags(files[tblName], ToSet(searchTags))

(***************************************************************************)
(* The mutations with any identifier Atoi accepts, over a directory whose  *)
(* files can fail to be read                                               *)
(***************************************************************************)

\* The records stored here: a complete one and one without any field.
FaultRecords == {RecA, RecEmpty}

\* The identifiers passed here: the canonical "1", the same integer with a
\* sign and with a leading zero, zero, a negative one, and one that is no
\* integer.
WideIds == { <<"1">>, <<"+", "1">>, <<"0", "1">>, <<"0">>, <<"-", "1">>, <<"x">> }

CreateAny == CreateOf(FaultRecords)

UpdateAny == UpdateOf(FaultRecords, WideIds)

DeleteAny == DeleteOf(WideIds)

\* A Create, Update or Delete on a configured table whose file mutation
\* succeeds and during whose initTblIndexes ioutil.ReadFile fails, in the
\* field rebuild (line 381) or in the tag rebuild (line 432).
MutationReadFails ==
    /\ Idle
    /\ \E tblName \in DOMAIN rwLocks \cap DOMAIN fieldsToIndex, op \in Mutations,
          rec \in FaultRecords, fileId \in WideIds, phase \in {"fields", "tags"} :
           \E r \in {CASE op = "Create" ->
                              CreateBody(fieldsToIndex, tblName, files[tblName],
                                         fldIndexes, tagIndexes, rec)
                       [] op = "Update" ->
                              UpdateBody(fieldsToIndex, tblName, files[tblName],
                                         fldIndexes, tagIndexes, rec, fileId)
                              @@ [id |-> fileId]
                       [] OTHER ->
                              DeleteBody(fieldsToIndex, tblName, files[tblName],
                                         fldIndexes, tagIndexes, fileId)
                              @@ [id |-> fileId]} :
               \E x \in {initTblIndexesReadFails(fieldsToIndex, tblName, r.files,
                                                 fldIndexes, tagIndexes, phase)} :
                   /\ op = "Delete" => Atoi(fileId).ok
                   /\ r.ran
                   /\ r.files # NoFiles
                   /\ Within(r.files)
                   /\ files' = [files EXCEPT ![tblName] = r.files]
                   /\ fldIndexes' = x.fld
                   /\ tagIndexes' = x.tag
                   /\ rebuilt' = [rebuilt EXCEPT ![tblName] = FALSE]
                   /\ last' = [Call(op, tblName) EXCEPT
                                   !.rec = IF op = "Delete" THEN NilRec ELSE rec,
                                   !.id = r.id, !.err = x.err]
                   /\ UNCHANGED <<fieldsToIndex, rwLocks, procs, created>>

NextFaults ==
    \/ CreateAny
    \/ UpdateAny
    \/ DeleteAny
    \/ MutationReadFails
    \/ Return

SpecFaults == Init /\ [][NextFaults]_vars

\* C13: a Create, Update or Delete that returns without error has run its
\* index rebuild to completion; a rebuild that failed is reported.
C13_FailedRebuildIsReported ==
    (last.op \in Mutations /\ last.tbl \in DOMAIN rwLocks /\ last.err = "nil")
    => rebuilt[last.tbl]

\* C14: a mutation whose file write or removal succeeded and whose rebuild
\* failed leaves the file mutation in place; and the next mutation on the
\* table whose rebuild runs to completion leaves the field index and the tag
\* index holding exactly what the table's files hold, whatever the failed
\* rebuild left.
C14_RebuildHealsAfterFailure ==
    [][\A tblName \in DOMAIN rwLocks :
          (last'.op \in Mutations /\ last'.tbl = tblName /\ last'.err \in {"nil", "panic"})
          => /\ ~rebuilt'[tblName]
                => IF last'.op = "Delete"
                   THEN last'.id \notin DOMAIN files'[tblName]
                   ELSE /\ last'.id \in DOMAIN files'[tblName]
                        /\ files'[tblName][last'.id] = Marshal(last'.rec).data
             /\ (~rebuilt[tblName] /\ rebuilt'[tblName] /\ last'.err = "nil")
                => ExactFieldIndex(tblName)' /\ ExactTagIndex(tblName)']_vars

\* An identifier Create allocates on a table of well-formed identifiers:
\* the decimal string of a positive integer, without sign or leading zero.
Canonical(fileId) ==
    LET n == Atoi(fileId)
    IN  n.ok /\ ~n.val.neg /\ n.val # Zero /\ Itoa(n.val) = fileId

\* C19: every identifier present in a table is the decimal string of a
\* positive integer, and no two identifiers of a table denote the same
\* integer.
C19_IdsAreCanonical ==
    \A tblName \in DOMAIN rwLocks :
        /\ \A fileId \in DOMAIN files[tblName] : Canonical(fileId)
        /\ \A f, g \in DOMAIN files[tblName] : Atoi(f).val = Atoi(g).val => f = g

(***************************************************************************)
(* Two tables, AfterFind hooks that call the database, and Close           *)
(***************************************************************************)

\* The call a hook makes runs in the goroutine of its Find; the model gives
\* it a frame of its own, which holds the locks the nested call takes.
HookNames == <<"h1", "h2", "h3", "h4">>

HookOf(p) == HookNames[CHOOSE i \in 1..Len(ProcNames) : ProcNames[i] = p]

Frames == Procs \cup {HookOf(p) : p \in Procs}

ReadOps == {"Find", "FindAllIds", "FindAllIdsForField", "FindAllIdsForTags"}

\* What AfterFind does with the database handle it is passed: nothing, a
\* read of a table, or a Delete of the record just found from a table.
Hooks ==
    {NoHook}
    \cup {[op |-> "FindAllIds", tbl |-> t] : t \in Tables}
    \cup {[op |-> "Delete", tbl |-> t] : t \in Tables}

\* The calls of the goroutines here: Find with every hook and a search by
\* field; Create, Delete, and an Update whose identifier is no integer.
LockReadCalls ==
    {[IdleProc EXCEPT !.op = "Find", !.id = <<"1">>, !.hook = hook] : hook \in Hooks}
    \cup {[IdleProc EXCEPT !.op = "FindAllIdsForField", !.fld = "author", !.val = "a"]}

LockWriteCalls ==
    {[IdleProc EXCEPT !.op = "Create", !.rec = RecA]}
    \cup {[IdleProc EXCEPT !.op = "Update", !.rec = RecA, !.id = <<"x">>]}
    \cup {[IdleProc EXCEPT !.op = "Delete", !.id = <<"1">>]}

\* The call of the hook of the Find c: AfterFind is passed db and fileId.
HookCall(c) == [IdleProc EXCEPT !.op = c.hook.op, !.tbl = c.hook.tbl, !.id = c.id]

\* AfterFind calls a read method, whose RLock returns.
HookRLock(p) ==
    /\ procs[p].pc = "read"
    /\ RunsHook(procs[p])
    /\ procs[p].hook.op \in ReadOps
    /\ LET h == HookOf(p)
           call == HookCall(procs[p])
       IN  /\ CanRLock(rwLocks[call.tbl])
           /\ rwLocks' = [rwLocks EXCEPT ![call.tbl].readers = @ \cup {h}]
           /\ procs' = [procs EXCEPT
                           ![p].pc = "hook",
                           ![h] = [call EXCEPT !.pc = "rlocked",
                                               !.snap = TableState(call.tbl)]]
    /\ UNCHANGED <<fieldsToIndex, fldIndexes, tagIndexes, files, rebuilt, last, created>>

\* AfterFind calls a write method, which enters Lock.
HookLock(p) ==
    /\ procs[p].pc = "read"
    /\ RunsHook(procs[p])
    /\ procs[p].hook.op \notin ReadOps
    /\ LET h == HookOf(p)
           call == HookCall(procs[p])
       IN  /\ CanAnnounce(rwLocks[call.tbl])
           /\ rwLocks' = [rwLocks EXCEPT ![call.tbl].announced = h]
           /\ procs' = [procs EXCEPT ![p].pc = "hook",
                                     ![h] = [call EXCEPT !.pc = "announced"]]
    /\ UNCHANGED <<fieldsToIndex, fldIndexes, tagIndexes, files, rebuilt, last, created>>

\* The call of the hook has returned, and AfterFind returns.
HookReturn(p) ==
    /\ procs[p].pc = "hook"
    /\ procs[HookOf(p)].pc = "idle"
    /\ procs' = [procs EXCEPT ![p].pc = "hooked"]
    /\ UNCHANGED <<fieldsToIndex, rwLocks, fldIndexes, tagIndexes, files, rebuilt, last,
                   created>>

\* Close is called: the range loop over db.rwLocks begins.
CloseCall(p) ==
    /\ procs[p].pc = "idle"
    /\ procs' = [procs EXCEPT ![p] = [IdleProc EXCEPT !.op = "Close", !.pc = "closing",
                                                      !.todo = DOMAIN rwLocks]]
    /\ UNCHANGED <<fieldsToIndex, rwLocks, fldIndexes, tagIndexes, files, rebuilt, last,
                   created>>

\* The loop reaches a table (a Go map is ranged over in any order) and
\* enters rwLock.Lock().
CloseLock(p) ==
    /\ procs[p].pc = "closing"
    /\ \E tblName \in procs[p].todo :
        /\ CanAnnounce(rwLocks[tblName])
        /\ rwLocks' = [rwLocks EXCEPT ![tblName].announced = p]
        /\ procs' = [procs EXCEPT ![p].pc = "closeannounced", ![p].tbl = tblName]
    /\ UNCHANGED <<fieldsToIndex, fldIndexes, tagIndexes, files, rebuilt, last, created>>

\* rwLock.Lock() returns.
CloseAcquire(p) ==
    /\ procs[p].pc = "closeannounced"
    /\ CanLock(rwLocks[procs[p].tbl])
    /\ rwLocks' = [rwLocks EXCEPT ![procs[p].tbl].writer = p]
    /\ procs' = [procs EXCEPT ![p].pc = "closelocked"]
    /\ UNCHANGED <<fieldsToIndex, fldIndexes, tagIndexes, files, rebuilt, last, created>>

\* rwLock.Unlock(); after the last table Close returns.
CloseUnlock(p) ==
    /\ procs[p].pc = "closelocked"
    /\ LET c == procs[p]
           left == c.todo \ {c.tbl}
       IN  /\ rwLocks' = [rwLocks EXCEPT ![c.tbl].writer = "none",
                                         ![c.tbl].announced = "none"]
           /\ procs' = [procs EXCEPT ![p] =
                           IF left = {} THEN IdleProc
                           ELSE [c EXCEPT !.pc = "closing", !.tbl = "", !.todo = left]]
    /\ UNCHANGED <<fieldsToIndex, fldIndexes, tagIndexes, files, rebuilt, last, created>>

\* The top-level maps db.fldIndexes and db.tagIndexes, shared by all
\* tables, that the next step of a frame writes (lines 368 and 464) and
\* reads (lines 135 and 179; the rebuilds read them too, lines 364 and 424).
WritesMaps(c) ==
    {"fldIndexes" : x \in {1} \cap {IF c.pc = "mutated" /\ c.tbl \in DOMAIN fieldsToIndex
                                    THEN 1 ELSE 0}}
    \cup {"tagIndexes" : x \in {1} \cap {IF c.pc = "fields"
                                            /\ initTagsIndex(files[c.tbl]).err = "nil"
                                         THEN 1 ELSE 0}}

ReadsMaps(c) ==
    {"fldIndexes" : x \in {1} \cap {IF \/ c.pc = "rlocked" /\ c.op = "FindAllIdsForField"
                                       \/ c.pc = "mutated" /\ c.tbl \in DOMAIN fieldsToIndex
                                    THEN 1 ELSE 0}}
    \cup {"tagIndexes" : x \in {1} \cap {IF \/ c.pc = "rlocked" /\ c.op = "FindAllIdsForTags"
                                            \/ c.pc = "fields"
                                         THEN 1 ELSE 0}}

\* Two frames are about to access one of the maps, one of them writing,
\* and no lock orders the two accesses.
Racing(p, q) ==
    /\ p # q
    /\ WritesMaps(procs[p]) \cap (WritesMaps(procs[q]) \cup ReadsMaps(procs[q])) # {}
    /\ ~\E tblName \in DOMAIN rwLocks :
           /\ rwLocks[tblName].writer \in {p, q}
           /\ {p, q} \subseteq rwLocks[tblName].readers \cup {rwLocks[tblName].writer}

\* A map written while it is read or written elsewhere: the accesses may
\* go through, which the steps of the two frames model, or the runtime
\* detects them ("concurrent map read and map write") and ends the process.
MapRace ==
    /\ \E p, q \in DOMAIN procs : Racing(p, q)
    /\ procs' = [f \in DOMAIN procs |-> [procs[f] EXCEPT !.pc = "fatal"]]
    /\ UNCHANGED <<fieldsToIndex, rwLocks, fldIndexes, tagIndexes, files, rebuilt, last,
                   created>>

LockConfigs == { [t \in {"posts"} |-> <<"author", "tags">>] }

InitLocks == InitOf(Tables, LockConfigs, Frames)

NextLocks ==
    \/ \E p \in Procs :
        \/ RLockOf(p, LockReadCalls)
        \/ LockOf(p, LockWriteCalls)
        \/ HookRLock(p)
        \/ HookLock(p)
        \/ HookReturn(p)
        \/ CloseCall(p)
        \/ CloseLock(p)
        \/ CloseAcquire(p)
        \/ CloseUnlock(p)
    \/ \E f \in Frames :
        \/ ReadBody(f)
        \/ RUnlock(f)
        \/ Acquire(f)
        \/ Mutate(f)
        \/ RebuildFields(f)
        \/ RebuildTags(f)
        \/ Unlock(f)
    \/ MapRace

SpecLocks == InitLocks /\ [][NextLocks]_vars

\* C15: operations on different tables never interact: no two frames are
\* ever about to access the same structure, one of them writing it, without
\* a lock that both hold ordering the two accesses.
C15_TablesNeverInteract ==
    \A p, q \in DOMAIN procs : ~Racing(p, q)

\* The goroutine p, in its call or in the call its hook makes, holds the
\* lock of the table.
GoHolds(p, tblName) ==
    \E f \in {p, HookOf(p)} :
        f \in rwLocks[tblName].readers \/ rwLocks[tblName].writer = f

\* The goroutine p is inside Lock or RLock of the table's lock and the call
\* has not returned.
GoWaits(p, tblName) ==
    \/ \E f \in {p, HookOf(p)} :
           rwLocks[tblName].announced = f /\ rwLocks[tblName].writer # f
    \/ /\ procs[p].pc = "read"
       /\ RunsHook(procs[p])
       /\ procs[p].hook.tbl = tblName
       /\ IF procs[p].hook.op \in ReadOps
          THEN ~CanRLock(rwLocks[tblName])
          ELSE ~CanAnnounce(rwLocks[tblName])

\* Two goroutines each hold the lock of one table and wait for the lock of
\* the other.
LockCycle(p, q) ==
    \E t1, t2 \in DOMAIN rwLocks :
        /\ t1 # t2
        /\ GoHolds(p, t1) /\ GoWaits(p, t2)
        /\ GoHolds(q, t2) /\ GoWaits(q, t1)

\* C16: no goroutine holds, or waits for, the lock of one table while it
\* holds the lock of a different table, and no two goroutines wait for each
\* other's table.
C16_OneTableAtATime ==
    /\ \A p \in Procs : \A t1, t2 \in DOMAIN rwLocks :
           (t1 # t2 /\ GoHolds(p, t1)) => ~(GoHolds(p, t2) \/ GoWaits(p, t2))
    /\ \A p, q \in Procs : ~LockCycle(p, q)

\* C18: an Update whose identifier is no integer neither waits for nor
\* holds the table's write lock at any moment of the call.
C18_InvalidUpdateTakesNoLock ==
    \A f \in DOMAIN procs :
        (procs[f].op = "Update" /\ ~Atoi(procs[f].id).ok)
        => \A tblName \in DOMAIN rwLocks :
               rwLocks[tblName].announced # f /\ rwLocks[tblName].writer # f

\* The Find of p has loaded its record and its hook calls a method on the
\* table of the Find itself.
ReentersTable(p) ==
    /\ RunsHook(procs[p])
    /\ procs[p].hook.tbl = procs[p].tbl
    /\ procs[p].pc \in {"read", "hook"}

\* The hook of p calls a write method on the table of its Find: the Find
\* holds the read lock and the nested call has not got past Lock.
WriteHookBlocked(p) ==
    /\ ReentersTable(p)
    /\ procs[p].hook.op \notin ReadOps
    /\ p \in rwLocks[procs[p].tbl].readers
    /\ procs[HookOf(p)].pc \in {"idle", "announced"}
    /\ rwLocks[procs[p].tbl].writer # HookOf(p)

\* The hook of p calls a read method on the table of its Find after a
\* writer has entered Lock on that table: the Find holds the read lock and
\* the nested RLock has not returned.
ReadHookBlocked(p) ==
    /\ ReentersTable(p)
    /\ procs[p].hook.op \in ReadOps
    /\ procs[p].pc = "read"
    /\ p \in rwLocks[procs[p].tbl].readers
    /\ rwLocks[procs[p].tbl].announced # "none"
    /\ rwLocks[procs[p].tbl].writer = "none"

Fatal == \A f \in DOMAIN procs : procs[f].pc = "fatal"

\* C17: Find holds the read lock while its hook runs, and nothing guards
\* reentry: a hook that calls a write method on the table of its Find is
\* blocked from then on, and so is a hook that calls a read method on that
\* table once a writer has entered Lock; neither ever gets the lock, and
\* the Find never returns (unless the runtime ends the process).
C17_ReentrantHookBlocksForever ==
    [][\A p \in Procs :
          /\ procs'[p].pc \in {"hook", "hooked"}
             => p \in rwLocks'[procs'[p].tbl].readers
          /\ WriteHookBlocked(p) => (WriteHookBlocked(p)' \/ Fatal')
          /\ ReadHookBlocked(p) => (ReadHookBlocked(p)' \/ Fatal')]_vars

\* Both deadlocks at once, on one table: the hook of q is inside Lock,
\* waiting for the readers p and q to leave, and the hook of p waits in
\* RLock behind it.
C17_Witness ==
    \E p, q \in Procs :
        /\ p # q
        /\ procs[p].tbl = procs[q].tbl
        /\ ReadHookBlocked(p)
        /\ WriteHookBlocked(q)
        /\ rwLocks[procs[q].tbl].announced = HookOf(q)
        /\ procs[HookOf(q)].pc = "announced"

(***************************************************************************)
(* Close among running operations, under a fair scheduler                  *)
(***************************************************************************)

\* The database here is opened without index configuration, so that no
\* call touches the index maps, and the hooks of its Finds call nothing.
CloseReadCalls ==
    {[IdleProc EXCEPT !.op = "Find", !.id = <<"1">>]}
    \cup {[IdleProc EXCEPT !.op = "FindAllIds"]}

InitClose == InitOf(Tables, {[t \in {} |-> <<>>]}, Procs)

\* A step of a call that has passed its Lock or RLock (initTblIndexes
\* returns at its first test: the table has no configuration).
Continue(p) ==
    \/ ReadBody(p)
    \/ RUnlock(p)
    \/ Acquire(p)
    \/ Mutate(p)
    \/ RebuildFields(p)
    \/ Unlock(p)
    \/ CloseAcquire(p)
    \/ CloseUnlock(p)

NextClose ==
    \E p \in Procs :
        \/ RLockOf(p, CloseReadCalls)
        \/ LockOf(p, LockWriteCalls)
        \/ CloseCall(p)
        \/ CloseLock(p)
        \/ Continue(p)

\* The Go scheduler runs every goroutine that can run, and the mutex inside
\* sync.RWMutex hands itself to a Lock that has waited (starvation mode), so
\* the Lock of Close is not overtaken for ever by other writers.  Callers
\* are not obliged to call.
SpecClose ==
    /\ InitClose
    /\ [][NextClose]_vars
    /\ \A p \in Procs : WF_vars(Continue(p)) /\ SF_vars(CloseLock(p))

InClose(p) == procs[p].op = "Close"

\* The locks Close is inside Lock of or holds.
CloseLocks(p) ==
    {t \in DOMAIN rwLocks : rwLocks[t].announced = p \/ rwLocks[t].writer = p}

\* C12: Close is inside or holds at most one table's lock at a time and
\* never one of a table it has been through; while it holds a table's
\* write lock no other call is between its Lock or RLock and its unlock on
\* that table; no step of Close changes a file, an index or the
\* configuration, which is all an operation depends on; and every Close
\* that is called returns.
C12_CloseDrains ==
    /\ [](\A p \in Procs :
            InClose(p)
            => /\ Cardinality(CloseLocks(p)) <= 1
               /\ CloseLocks(p) \subseteq procs[p].todo
               /\ procs[p].pc = "closelocked"
                  => \A q \in Procs \ {p} :
                         /\ ~InRead(q, procs[p].tbl)
                         /\ ~InWrite(q, procs[p].tbl)
                         /\ ~(InClose(q) /\ procs[q].pc = "closelocked"
                                 /\ procs[q].tbl = procs[p].tbl))
    /\ [][\A p \in Procs :
             (procs'[p] # procs[p] /\ (InClose(p) \/ InClose(p)'))
             => UNCHANGED <<fieldsToIndex, fldIndexes, tagIndexes, files>>]_vars
    /\ \A p \in Procs : InClose(p) ~> (procs[p].pc = "idle")

\* Close holds the write lock of notes, having gone through posts, while a
\* writer that called after Close left posts is between Lock and Unlock on
\* posts.
C12_Witness ==
    \E p, q \in Procs :
        /\ InClose(p)
        /\ procs[p].pc = "closelocked"
        /\ procs[p].tbl = "notes"
        /\ procs[p].todo = {"notes"}
        /\ InWrite(q, "posts")

\* C21: a Delete whose identifier is no integer, or names no record of the
\* table, returns an error value and leaves the files of every table, the
\* field index and the tag index as they were; no rebuild is run.
C21_FailedDeleteChangesNothing ==
    [][(/\ last'.op = "Delete"
        /\ \/ ~Atoi(last'.id).ok
           \/ /\ last'.tbl \in DOMAIN rwLocks
              /\ last'.id \notin DOMAIN files[last'.tbl])
       => /\ last'.err = "error"
          /\ UNCHANGED <<files, fldIndexes, tagIndexes, rebuilt, rwLocks>>]_vars

\* A Delete of an identifier that names no record has returned its error
\* on a table that holds tagged records, whose field index is filled (a
\* Delete whose rebuild failed would have emptied it) and whose tag index an
\* earlier failed rebuild left empty (a rebuild would have filled it).
C21_Witness ==
    /\ last.op = "Delete"
    /\ last.tbl = "posts"
    /\ last.err = "error"
    /\ Atoi(last.id).ok
    /\ files["posts"] # NoFiles
    /\ TagsConfigured("posts")
    /\ ~rebuilt["posts"]
    /\ last.id \notin DOMAIN files["posts"]
    /\ fldIndexes["posts"] # initNonTagsIndexesReadFails(fieldsToIndex["posts"]).idx
    /\ TagIndexOf(tagIndexes, "posts") = NoBuckets
    /\ initTagsIndex(files["posts"]) # [err |-> "nil", idx |-> NoBuckets]

(***************************************************************************)
(* The ways out of a call: every return, the failing ones included         *)
(***************************************************************************)

\* The calls here end in every way the methods can end: a Find of a record
\* that is or is not there, a search by field that scans (and fails at the
\* first record without the field), a Create whose rebuild fails on the
\* table with index configuration, a Create whose record json.Marshal
\* rejects, an Update whose identifier is no integer, a Delete of a record that is or is not there, and Close.
ExitReadCalls ==
    {[IdleProc EXCEPT !.op = "Find", !.id = <<"1">>]}
    \cup {[IdleProc EXCEPT !.op = "FindAllIdsForField", !.fld = "author", !.val = "a"]}

ExitWriteCalls ==
    {[IdleProc EXCEPT !.op = "Create", !.rec = rec] : rec \in {RecEmpty, BadRec}}
    \cup {[IdleProc EXCEPT !.op = "Update", !.rec = RecA, !.id = <<"x">>]}
    \cup {[IdleProc EXCEPT !.op = "Delete", !.id = <<"1">>]}

InitExits == InitOf(Tables, LockConfigs, Procs)

NextExits ==
    \E p \in Procs :
        \/ RLockOf(p, ExitReadCalls)
        \/ LockOf(p, ExitWriteCalls)
        \/ CloseCall(p)
        \/ CloseLock(p)
        \/ Continue(p)
        \/ RebuildTags(p)

SpecExits == InitExits /\ [][NextExits]_vars

\* The calls between their RLock and their RUnlock on the table, the call
\* that holds its write lock, and the call that has entered Lock on it.
ReadHolders(tblName) ==
    {p \in DOMAIN procs : /\ procs[p].tbl = tblName
                          /\ procs[p].pc \in {"rlocked", "read", "hook", "hooked"}}

WriteHolders(tblName) ==
    {p \in DOMAIN procs :
        /\ procs[p].tbl = tblName
        /\ procs[p].pc \in {"locked", "mutated", "fields", "unlock", "closelocked"}}

WriteEntered(tblName) ==
    WriteHolders(tblName)
    \cup {p \in DOMAIN procs : /\ procs[p].tbl = tblName
                               /\ procs[p].pc \in {"announced", "closeannounced"}}

\* The lock after p has left it.
Released(lock, p) ==
    [readers |-> lock.readers \ {p},
     writer |-> IF lock.writer = p THEN "none" ELSE lock.writer,
     announced |-> IF lock.announced = p THEN "none" ELSE lock.announced]

\* The call of p is past its Lock or RLock on a table.
OnTable(p) == procs[p].pc \notin {"idle", "closing"}

\* C23: the readers of a table's lock are exactly the calls between their
\* RLock and their return on that table, its writer is exactly the call
\* between its Lock and its return (for Close, its Unlock) on it, so the
\* lock of a table no call is inside is free, with no reader and no writer;
\* and a step in which a call returns (or Close leaves a table), with or
\* without an error, takes that call out of the lock of its own table, as
\* the reader or the writer it was, and changes no other lock.
C23_EveryExitReleasesItsLock ==
    /\ [](\A t \in DOMAIN rwLocks :
            /\ rwLocks[t].readers = ReadHolders(t)
            /\ \A p \in DOMAIN procs :
                /\ rwLocks[t].writer = p <=> p \in WriteHolders(t)
                /\ rwLocks[t].announced = p <=> p \in WriteEntered(t)
            /\ WriteHolders(t) = {} => rwLocks[t].writer = "none"
            /\ WriteEntered(t) = {} => rwLocks[t].announced = "none"
            /\ ReadHolders(t) \cup WriteEntered(t) = {} => rwLocks[t] = FreeLock)
    /\ [][\A p \in DOMAIN procs :
            (OnTable(p) /\ procs[p].pc # "announced" /\ procs[p].pc # "closeannounced"
                /\ ~OnTable(p)')
            => /\ (p \in rwLocks[procs[p].tbl].readers) # (rwLocks[procs[p].tbl].writer = p)
               /\ rwLocks' = [rwLocks EXCEPT ![procs[p].tbl] = Released(@, p)]]_vars

\* A Create whose rebuild failed has returned from the table with index
\* configuration: no call is inside that table and its lock is free, while
\* a writer holds the lock of the other table and stays in it.
C23_Witness ==
    /\ ~rebuilt["posts"]
    /\ files["posts"] # NoFiles
    /\ ReadHolders("posts") \cup WriteEntered("posts") = {}
    /\ rwLocks["posts"] = FreeLock
    /\ WriteHolders("notes") # {}
    /\ rwLocks["notes"].writer \in WriteHolders("notes")

(***************************************************************************)
(* Calls that wait for their lock, under a fair scheduler                  *)
(***************************************************************************)

\* The calls here: the hooks of the Finds call nothing.
FairReadCalls ==
    {[IdleProc EXCEPT !.op = "Find", !.id = <<"1">>]}
    \cup {[IdleProc EXCEPT !.op = "FindAllIdsForField", !.fld = "author", !.val = "a"]}

FairWriteCalls ==
    {[IdleProc EXCEPT !.op = "Create", !.rec = RecA]}
    \cup {[IdleProc EXCEPT !.op = "Delete", !.id = <<"1">>]}

\* A goroutine calls a method on a table; the method's first statement is
\* its RLock or Lock (Delete's identifier here is an integer).
Invoke(p) ==
    /\ procs[p].pc = "idle"
    /\ \E tblName \in DOMAIN rwLocks, call \in FairReadCalls \cup FairWriteCalls :
        /\ FitsTable(call, files[tblName])
        /\ procs' = [procs EXCEPT ![p] = [call EXCEPT !.pc = "called", !.tbl = tblName]]
    /\ UNCHANGED <<fieldsToIndex, rwLocks, fldIndexes, tagIndexes, files, rebuilt, last,
                   created>>

\* RLock returns to the reader that called it.
EnterRLock(p) ==
    /\ procs[p].pc = "called"
    /\ procs[p].op \in ReadOps
    /\ CanRLock(rwLocks[procs[p].tbl])
    /\ rwLocks' = [rwLocks EXCEPT ![procs[p].tbl].readers = @ \cup {p}]
    /\ procs' = [procs EXCEPT ![p].pc = "rlocked",
                              ![p].snap = TableState(procs[p].tbl)]
    /\ UNCHANGED <<fieldsToIndex, fldIndexes, tagIndexes, files, rebuilt, last, created>>

\* The writer gets the mutex inside Lock: new readers wait from now on.
EnterLock(p) ==
    /\ procs[p].pc = "called"
    /\ procs[p].op \in Mutations
    /\ CanAnnounce(rwLocks[procs[p].tbl])
    /\ rwLocks' = [rwLocks EXCEPT ![procs[p].tbl].announced = p]
    /\ procs' = [procs EXCEPT ![p].pc = "announced"]
    /\ UNCHANGED <<fieldsToIndex, fldIndexes, tagIndexes, files, rebuilt, last, created>>

InitFair == InitOf(Tables, LockConfigs, Procs)

\* A step of a call that is not waiting for another goroutine.
Run(p) == Continue(p) \/ RebuildTags(p)

NextFair ==
    \/ \E p \in Procs :
        \/ Invoke(p)
        \/ CloseCall(p)
        \/ EnterRLock(p)
        \/ EnterLock(p)
        \/ CloseLock(p)
        \/ Run(p)
    \/ MapRace

\* The Go scheduler runs every goroutine that can run; sync.RWMutex lets
\* the readers that waited behind a writer in before the next writer, and
\* its mutex is handed to a Lock that has waited (starvation mode): a call
\* whose lock is free again and again gets it.  Callers are not obliged to
\* call, and the runtime is not obliged to detect a race on a map.
SpecFair ==
    /\ InitFair
    /\ [][NextFair]_vars
    /\ \A p \in Procs :
        /\ WF_vars(Run(p))
        /\ SF_vars(EnterRLock(p))
        /\ SF_vars(EnterLock(p))
        /\ SF_vars(CloseLock(p))

\* C22: under the fair scheduler and the fair locks, with hooks that call
\* nothing, every call a goroutine has made (Find, a search by field,
\* Create, Delete or Close, on either table) eventually returns: none waits
\* for its lock for ever and none is left unfinished.
C22_EveryCallReturns ==
    \A p \in Procs : (procs[p].pc # "idle") ~> (procs[p].pc = "idle")

====
